---- MODULE Spec2Model ----
(***************************************************************************)
(* J2ME Browser: the useCheerpJ engine lifecycle adapter, the Emulator     *)
(* component that drives it, and the manifest parser of jarParser.ts.      *)
(*                                                                         *)
(* Spec      : one mounted Emulator with its useCheerpJ adapter; the       *)
(*             asynchronous calls of initialize and loadJAR are tasks that *)
(*             suspend at every await and resume in any order.             *)
(* SpecParse : parseMIDletEntries applied to bounded manifest mappings.    *)
(***************************************************************************)
EXTENDS Integers, Sequences, FiniteSets, TLC

\* bounds of the model
MaxTasks == 2
MaxMidlets == 3
MaxLines == 3

Tasks == 1..MaxTasks

\* EmulatorStatus
Statuses == {"idle", "loading", "initializing", "running", "paused", "error"}

\* null, for the error message
NULL == "null"

\* abstract screen sizes passed as (screenWidth, screenHeight)
Sizes == {1, 2}

\* what a failed external call throws: an Error instance or something else
Thrown == {"Error", "other"}

\* synchronous failure injected into the body of loadJAR
Fails == {"none", "url", "display"}

\* how the body of loadJAR goes: no failure, or a failure and what it throws
Outcomes == {<<"none", "Error">>} \cup ({"url", "display"} \X Thrown)

VARIABLES
    status,             \* useState<EmulatorStatus>
    error,              \* useState<string | null>
    isReady,            \* useState(false)
    displayElement,     \* useState<HTMLElement | null>: 0 is null, else the size it was created with
    jarUrlRef,          \* useRef<string | null>: 0 is null, else the id of a blob URL
    containerRef,       \* useRef<HTMLElement | null>: TRUE when the mount point is attached
    cheerpjInitDefined, \* typeof window.cheerpjInit === 'function'
    liveUrls,           \* blob URLs created by createObjectURL and not yet revoked
    tasks,              \* the calls of initialize and loadJAR, one record per call
    mounted,            \* the Emulator (and with it the hook) is mounted
    hasJar,             \* jarFile && manifest
    effectRan,          \* the load effect of the Emulator has run
    effectReady,        \* the isReady captured by the loadJAR the load effect last ran with
    last,               \* the step just taken: operation, setStatus calls, dispatched event
    manifest,           \* parser input: MIDlet-<i> -> value or Absent
    midlets,            \* parser output: the list of MIDletInfo
    parsed,             \* the parser has run
    srcLines,           \* the lines a manifest text was written with
    content,            \* the manifest text: the lines joined by LF or CRLF
    rawManifest,        \* Record<string, string>: key -> value
    screen,             \* result of parseScreenSize: width and height
    jarManifest         \* result of parseJAR / parseJAD: the JARManifest, or the error thrown

adapterVars == <<status, error, isReady, displayElement, jarUrlRef, containerRef,
                 cheerpjInitDefined, liveUrls, tasks, mounted, hasJar, effectRan,
                 effectReady, last>>
parserVars == <<manifest, midlets, parsed, srcLines, content, rawManifest, screen, jarManifest>>
vars == <<status, error, isReady, displayElement, jarUrlRef, containerRef,
          cheerpjInitDefined, liveUrls, tasks, mounted, hasJar, effectRan,
          effectReady, last, manifest, midlets, parsed, srcLines, content, rawManifest,
          screen, jarManifest>>

----------------------------------------------------------------------------
\* The adapter

NoTask == [kind |-> "none", pc |-> "new", ready |-> FALSE, size |-> 0,
           script |-> "none", init |-> "none", url |-> 0, display |-> FALSE,
           ran |-> FALSE, result |-> "none"]

\* the state one synchronous segment of code reads and writes
Cur == [status |-> status, error |-> error, isReady |-> isReady,
        displayElement |-> displayElement, jarUrlRef |-> jarUrlRef,
        liveUrls |-> liveUrls, tasks |-> tasks, sets |-> <<>>]

\* a call's arguments are garbage once its body has used them
release(task) == IF task.pc \in {"run", "done"} THEN [task EXCEPT !.size = 0] ELSE task

Commit(s, op, t) ==
    /\ status' = s.status
    /\ error' = s.error
    /\ isReady' = s.isReady
    /\ displayElement' = s.displayElement
    /\ jarUrlRef' = s.jarUrlRef
    /\ liveUrls' = s.liveUrls
    /\ tasks' = [u \in Tasks |-> release(s.tasks[u])]
    /\ last' = [op |-> op, sets |-> s.sets, event |-> "none"]

setStatus(s, v) == [s EXCEPT !.status = v, !.sets = Append(@, v)]

\* URL.revokeObjectURL(jarUrlRef.current) when jarUrlRef.current is set
revokeCurrent(s) ==
    IF s.jarUrlRef # 0 THEN [s EXCEPT !.liveUrls = @ \ {s.jarUrlRef}] ELSE s

\* err instanceof Error ? err.message : fallback
messageOf(err, fallback) == IF err = "Error" THEN "err.message" ELSE fallback

\* the value a finished call hands to its caller when it fails
failed(kind) == IF kind = "initialize" THEN "false" ELSE "thrown"

\* initialize clearing the error without setStatus('loading')
initializeStart_NoLoading(s, t) ==
    LET s1 == [s EXCEPT !.error = NULL]
    IN  [s1 EXCEPT !.tasks[t].pc = "script",
                   !.tasks[t].script = IF cheerpjInitDefined THEN "present" ELSE "pending"]

\* initialize, from its first line to the await of loadScript (isReady false)
initializeStart(s, t) ==
    LET s1 == [setStatus(s, "loading") EXCEPT !.error = NULL]
    IN  [s1 EXCEPT !.tasks[t].pc = "script",
                   !.tasks[t].script = IF cheerpjInitDefined THEN "present" ELSE "pending"]

\* the catch block of initialize, with a loadJAR that goes on after initialize returned false
initializeCatch_NoThrow(s, t, err) ==
    LET s1 == [s EXCEPT !.error = messageOf(err, "Failed to initialize CheerpJ")]
        s2 == setStatus(s1, "error")
    IN  IF s.tasks[t].kind = "initialize"
        THEN [s2 EXCEPT !.tasks[t].pc = "done", !.tasks[t].result = "false"]
        ELSE [s2 EXCEPT !.tasks[t].pc = "afterInit"]

\* the catch block of initialize; a loadJAR that awaits it then throws
initializeCatch(s, t, err) ==
    LET s1 == [s EXCEPT !.error = messageOf(err, "Failed to initialize CheerpJ")]
        s2 == setStatus(s1, "error")
    IN  [s2 EXCEPT !.tasks[t].pc = "done", !.tasks[t].result = failed(s.tasks[t].kind)]

\* the catch block of loadJAR without setStatus('error')
loadJARCatch_NoStatus(s, t, err) ==
    LET s1 == [s EXCEPT !.error = messageOf(err, "Failed to load JAR")]
    IN  [s1 EXCEPT !.tasks[t].pc = "done", !.tasks[t].result = "thrown"]

\* the catch block of loadJAR
loadJARCatch(s, t, err) ==
    LET s1 == [s EXCEPT !.error = messageOf(err, "Failed to load JAR")]
        s2 == setStatus(s1, "error")
    IN  [s2 EXCEPT !.tasks[t].pc = "done", !.tasks[t].result = "thrown"]

\* the try block of loadJAR without the revoke of the previous URL
loadJARBody_NoRevoke(s, t, fail, err) ==
    LET s1 == setStatus(s, "loading")
        s3 == [s1 EXCEPT !.liveUrls = @ \cup {t}, !.jarUrlRef = t, !.tasks[t].url = t]
        s4 == IF containerRef
              THEN [s3 EXCEPT !.displayElement = s.tasks[t].size, !.tasks[t].display = TRUE]
              ELSE s3
        s5 == setStatus(s4, "running")
    IN  IF fail = "url" THEN loadJARCatch(s1, t, err)
        ELSE IF fail = "display" /\ containerRef THEN loadJARCatch(s3, t, err)
        ELSE [s5 EXCEPT !.tasks[t].ran = TRUE, !.tasks[t].pc = "run"]

\* the try block of loadJAR without setStatus('loading')
loadJARBody_NoLoading(s, t, fail, err) ==
    LET s2 == revokeCurrent(s)
        s3 == [s2 EXCEPT !.liveUrls = @ \cup {t}, !.jarUrlRef = t, !.tasks[t].url = t]
        s4 == IF containerRef
              THEN [s3 EXCEPT !.displayElement = s.tasks[t].size, !.tasks[t].display = TRUE]
              ELSE s3
        s5 == setStatus(s4, "running")
    IN  IF fail = "url" THEN loadJARCatch(s2, t, err)
        ELSE IF fail = "display" /\ containerRef THEN loadJARCatch(s3, t, err)
        ELSE [s5 EXCEPT !.tasks[t].ran = TRUE, !.tasks[t].pc = "run"]

\* the try block of loadJAR up to the await of cheerpjRunMain
loadJARBody(s, t, fail, err) ==
    LET s1 == setStatus(s, "loading")
        s2 == revokeCurrent(s1)
        s3 == [s2 EXCEPT !.liveUrls = @ \cup {t}, !.jarUrlRef = t, !.tasks[t].url = t]
        s4 == IF containerRef
              THEN [s3 EXCEPT !.displayElement = s.tasks[t].size, !.tasks[t].display = TRUE]
              ELSE s3
        s5 == setStatus(s4, "running")
    IN  IF fail = "url" THEN loadJARCatch(s2, t, err)
        ELSE IF fail = "display" /\ containerRef THEN loadJARCatch(s3, t, err)
        ELSE [s5 EXCEPT !.tasks[t].ran = TRUE, !.tasks[t].pc = "run"]

\* a call of loadJAR, up to its first await
loadJARCall(s, t, size, fail, err) ==
    LET s1 == [s EXCEPT !.tasks[t] = [NoTask EXCEPT !.kind = "loadJAR",
                                                    !.ready = s.isReady, !.size = size]]
    IN  IF s.isReady THEN loadJARBody(s1, t, fail, err) ELSE initializeStart(s1, t)

\* stop that also clears the error message
stop_ClearsError(s) ==
    LET s1 == IF s.jarUrlRef # 0 THEN [revokeCurrent(s) EXCEPT !.jarUrlRef = 0] ELSE s
    IN  [setStatus(s1, "idle") EXCEPT !.displayElement = 0, !.error = NULL]

\* stop
stop(s) ==
    LET s1 == IF s.jarUrlRef # 0 THEN [revokeCurrent(s) EXCEPT !.jarUrlRef = 0] ELSE s
    IN  [setStatus(s1, "idle") EXCEPT !.displayElement = 0]

\* sendKeyEvent with the status check left out
sendKeyEvent_NoStatusCheck(st, display, pressed) ==
    IF display = 0 THEN "none" ELSE IF pressed THEN "keydown" ELSE "keyup"

\* sendKeyEvent: the event dispatched to the display element, "none" when it returns early
sendKeyEvent(st, display, pressed) ==
    IF st # "running" \/ display = 0 THEN "none"
    ELSE IF pressed THEN "keydown" ELSE "keyup"

\* the slot of the next call
FreeTask == CHOOSE t \in Tasks : tasks[t].kind = "none" /\ \A u \in Tasks : u < t => tasks[u].kind # "none"
HasFree == \E t \in Tasks : tasks[t].kind = "none"

\* a continuation is queued as a microtask: it runs before the next event is handled
MicrotaskPending ==
    \E t \in Tasks : \/ tasks[t].pc = "afterInit"
                      \/ (tasks[t].pc = "script" /\ tasks[t].script = "present")

Frame == UNCHANGED <<containerRef, cheerpjInitDefined, mounted, hasJar, effectRan, effectReady>>

TypeOK ==
    /\ status \in Statuses
    /\ error \in {NULL, "err.message", "Failed to load CheerpJ",
                  "Failed to initialize CheerpJ", "Failed to load JAR"}
    /\ isReady \in BOOLEAN
    /\ displayElement \in {0} \cup Sizes
    /\ jarUrlRef \in {0} \cup Tasks
    /\ liveUrls \subseteq Tasks

InitAdapter ==
    /\ status = "idle"
    /\ error = NULL
    /\ isReady = FALSE
    /\ displayElement = 0
    /\ jarUrlRef = 0
    /\ containerRef = TRUE
    /\ cheerpjInitDefined \in BOOLEAN
    /\ liveUrls = {}
    /\ tasks = [t \in Tasks |-> NoTask]
    /\ mounted = TRUE
    /\ hasJar \in BOOLEAN
    /\ effectRan = FALSE
    /\ effectReady = FALSE
    /\ last = [op |-> "none", sets |-> <<>>, event |-> "none"]

\* a JavaScript number: an integer, or NaN
Num(n) == [nan |-> FALSE, n |-> n]
NaN == [nan |-> TRUE, n |-> 0]

\* no JARManifest built yet
NoManifest == [error |-> NULL, midletName |-> <<>>, midletVersion |-> <<>>,
               midletVendor |-> <<>>, className |-> <<>>]

\* nothing handed to parseManifest, parseScreenSize or parseJAD
InitTextIdle ==
    /\ srcLines = <<>>
    /\ content = <<>>
    /\ rawManifest = <<>>
    /\ screen = [width |-> Num(0), height |-> Num(0)]
    /\ jarManifest = NoManifest

InitParserIdle ==
    /\ manifest = <<>>
    /\ midlets = <<>>
    /\ parsed = FALSE
    /\ InitTextIdle

Init == InitAdapter /\ InitParserIdle

\* a client of the hook calls initialize()
Initialize ==
    /\ mounted /\ effectRan /\ ~MicrotaskPending /\ HasFree
    /\ LET t == FreeTask
           s1 == [Cur EXCEPT !.tasks[t] = [NoTask EXCEPT !.kind = "initialize", !.ready = isReady]]
       IN  IF isReady
           THEN Commit([s1 EXCEPT !.tasks[t].pc = "done", !.tasks[t].result = "true"], "initialize", t)
           ELSE Commit(initializeStart(s1, t), "initialize", t)
    /\ Frame /\ UNCHANGED parserVars

\* a client of the hook calls loadJAR(jarBlob, className, screenWidth, screenHeight)
LoadJAR ==
    /\ mounted /\ effectRan /\ ~MicrotaskPending /\ HasFree
    /\ \E size \in Sizes, o \in Outcomes :
          Commit(loadJARCall(Cur, FreeTask, size, o[1], o[2]), "loadJAR", FreeTask)
    /\ Frame /\ UNCHANGED parserVars

\* a client of the hook calls stop()
Stop ==
    /\ mounted /\ effectRan /\ ~MicrotaskPending
    /\ Commit(stop(Cur), "stop", 0)
    /\ Frame /\ UNCHANGED parserVars

\* the keyboard listeners or the virtual keypad call sendKeyEvent(keyCode, pressed)
SendKeyEvent ==
    /\ mounted /\ effectRan /\ ~MicrotaskPending
    /\ \E pressed \in BOOLEAN :
          last' = [op |-> "sendKeyEvent", sets |-> <<>>,
                   event |-> sendKeyEvent(status, displayElement, pressed)]
    /\ UNCHANGED <<status, error, isReady, displayElement, jarUrlRef, liveUrls, tasks>>
    /\ Frame /\ UNCHANGED parserVars

\* script.onload of the script a task injected, and the task's continuation
ScriptOnload(t) ==
    /\ ~MicrotaskPending
    /\ tasks[t].pc = "script" /\ tasks[t].script = "pending"
    /\ cheerpjInitDefined' = TRUE
    /\ LET s1 == setStatus(Cur, "initializing")
       IN  Commit([s1 EXCEPT !.tasks[t].script = "loaded", !.tasks[t].init = "pending",
                             !.tasks[t].pc = "init"], "scriptOnload", t)
    /\ UNCHANGED <<containerRef, mounted, hasJar, effectRan, effectReady>>
    /\ UNCHANGED parserVars

\* loadScript resolved at once because window.cheerpjInit was there: the continuation
ScriptPresent(t) ==
    /\ tasks[t].pc = "script" /\ tasks[t].script = "present"
    /\ LET s1 == setStatus(Cur, "initializing")
       IN  Commit([s1 EXCEPT !.tasks[t].init = "pending", !.tasks[t].pc = "init"],
                  "scriptPresent", t)
    /\ Frame /\ UNCHANGED parserVars

\* script.onerror of the script a task injected
ScriptOnerror(t) ==
    /\ ~MicrotaskPending
    /\ tasks[t].pc = "script" /\ tasks[t].script = "pending"
    /\ LET s1 == [Cur EXCEPT !.tasks[t].script = "failed", !.error = "Failed to load CheerpJ"]
           s2 == setStatus(s1, "error")
       IN  Commit([s2 EXCEPT !.tasks[t].pc = "done", !.tasks[t].result = failed(tasks[t].kind)],
                  "scriptOnerror", t)
    /\ Frame /\ UNCHANGED parserVars

\* cheerpjInit resolves
CheerpjInitResolve(t) ==
    /\ tasks[t].pc = "init"
    /\ LET s1 == [Cur EXCEPT !.isReady = TRUE, !.tasks[t].init = "ok"]
           s2 == setStatus(s1, "idle")
       IN  IF tasks[t].kind = "initialize"
           THEN Commit([s2 EXCEPT !.tasks[t].pc = "done", !.tasks[t].result = "true"],
                       "cheerpjInitResolve", t)
           ELSE Commit([s2 EXCEPT !.tasks[t].pc = "afterInit"], "cheerpjInitResolve", t)
    /\ Frame /\ UNCHANGED parserVars

\* cheerpjInit rejects
CheerpjInitReject(t) ==
    /\ tasks[t].pc = "init"
    /\ \E err \in Thrown :
          Commit(initializeCatch([Cur EXCEPT !.tasks[t].init = "failed"], t, err),
                 "cheerpjInitReject", t)
    /\ Frame /\ UNCHANGED parserVars

\* loadJAR resumes after its initialize() returned true
LoadJARContinue(t) ==
    /\ tasks[t].pc = "afterInit"
    /\ \E o \in Outcomes :
          Commit(loadJARBody(Cur, t, o[1], o[2]), "loadJARContinue", t)
    /\ Frame /\ UNCHANGED parserVars

\* cheerpjRunMain resolves
RunMainResolve(t) ==
    /\ tasks[t].pc = "run"
    /\ Commit([Cur EXCEPT !.tasks[t].pc = "done", !.tasks[t].result = "resolved"],
              "runMainResolve", t)
    /\ Frame /\ UNCHANGED parserVars

\* cheerpjRunMain rejects
RunMainReject(t) ==
    /\ tasks[t].pc = "run"
    /\ \E err \in Thrown : Commit(loadJARCatch(Cur, t, err), "runMainReject", t)
    /\ Frame /\ UNCHANGED parserVars

\* the load effect of the Emulator: on mount, and again when loadJAR changes
LoadEffect ==
    /\ mounted /\ ~MicrotaskPending
    /\ ~effectRan \/ effectReady # isReady
    /\ hasJar => HasFree
    /\ LET s0 == IF effectRan THEN stop(Cur) ELSE Cur
       IN  IF hasJar
           THEN \E size \in Sizes, o \in Outcomes :
                   Commit(loadJARCall(s0, FreeTask, size, o[1], o[2]), "loadEffect", FreeTask)
           ELSE Commit(s0, "loadEffect", 0)
    /\ effectRan' = TRUE
    /\ effectReady' = isReady
    /\ UNCHANGED <<containerRef, cheerpjInitDefined, mounted, hasJar>>
    /\ UNCHANGED parserVars

\* the Emulator unmounts: the hook's cleanup, the load effect's cleanup, the ref detached
Unmount ==
    /\ mounted /\ effectRan /\ ~MicrotaskPending
    /\ Commit(stop(revokeCurrent(Cur)), "unmount", 0)
    /\ mounted' = FALSE
    /\ containerRef' = FALSE
    /\ UNCHANGED <<cheerpjInitDefined, hasJar, effectRan, effectReady>>
    /\ UNCHANGED parserVars

Next ==
    \/ Initialize
    \/ LoadJAR
    \/ Stop
    \/ SendKeyEvent
    \/ \E t \in Tasks : ScriptOnload(t)
    \/ \E t \in Tasks : ScriptPresent(t)
    \/ \E t \in Tasks : ScriptOnerror(t)
    \/ \E t \in Tasks : CheerpjInitResolve(t)
    \/ \E t \in Tasks : CheerpjInitReject(t)
    \/ \E t \in Tasks : LoadJARContinue(t)
    \/ \E t \in Tasks : RunMainResolve(t)
    \/ \E t \in Tasks : RunMainReject(t)
    \/ LoadEffect
    \/ Unmount

Spec == Init /\ [][Next]_vars

\* The hook as the Emulator drives it: App renders the Emulator only with a loaded game,
\* and the Emulator calls loadJAR and stop from its load effect alone.
InitEmulator == Init /\ hasJar

NextEmulator ==
    \/ SendKeyEvent
    \/ \E t \in Tasks : ScriptOnload(t)
    \/ \E t \in Tasks : ScriptPresent(t)
    \/ \E t \in Tasks : ScriptOnerror(t)
    \/ \E t \in Tasks : CheerpjInitResolve(t)
    \/ \E t \in Tasks : CheerpjInitReject(t)
    \/ \E t \in Tasks : LoadJARContinue(t)
    \/ \E t \in Tasks : RunMainResolve(t)
    \/ \E t \in Tasks : RunMainReject(t)
    \/ LoadEffect
    \/ Unmount

SpecEmulator == InitEmulator /\ [][NextEmulator]_vars

----------------------------------------------------------------------------
\* The manifest parser (jarParser.ts).  A string is a sequence of characters.

\* manifest[key] of a key the mapping does not have (undefined)
Absent == <<"undefined">>

\* the values a parsed manifest can hold under a MIDlet-<i> key: trimmed strings
EntryValues ==
    { <<>>,
      <<"a">>,
      <<"a", ",", "b", ",", "c">>,
      <<"a", ",", " ", "b", ",", " ", "c">>,
      <<",", ",", "c">>,
      <<"a", ",", "b", ",">> }

\* String.prototype.split(",")
RECURSIVE split(_)
split(str) ==
    IF \A k \in 1..Len(str) : str[k] # ","
    THEN <<str>>
    ELSE LET c == CHOOSE k \in 1..Len(str) : str[k] = "," /\ \A j \in 1..(k - 1) : str[j] # ","
         IN  <<SubSeq(str, 1, c - 1)>> \o split(SubSeq(str, c + 1, Len(str)))

\* String.prototype.trim()
RECURSIVE trim(_)
trim(str) ==
    IF str = <<>> THEN str
    ELSE IF Head(str) = " " THEN trim(Tail(str))
    ELSE IF str[Len(str)] = " " THEN trim(SubSeq(str, 1, Len(str) - 1))
    ELSE str

\* the truthiness of manifest[key]: undefined and the empty string are falsy
truthy(v) == v # Absent /\ v # <<>>

\* manifest[`MIDlet-${i}`]
lookup(m, i) == IF i \in DOMAIN m THEN m[i] ELSE Absent

\* the MIDletInfo pushed for manifest[`MIDlet-${i}`]
MIDletInfo(entry, i) ==
    LET raw == split(entry)
        parts == [k \in 1..Len(raw) |-> trim(raw[k])]
        part(k) == IF k <= Len(parts) THEN parts[k] ELSE <<>>
    IN  [name |-> IF part(1) # <<>> THEN part(1) ELSE <<"MIDlet ", ToString(i)>>,
         icon |-> IF part(2) # <<>> THEN part(2) ELSE <<"null">>,
         className |-> part(3)]

\* the while loop of parseMIDletEntries, from index i on
RECURSIVE entriesFrom(_, _)
entriesFrom(m, i) ==
    IF truthy(lookup(m, i))
    THEN <<MIDletInfo(lookup(m, i), i)>> \o entriesFrom(m, i + 1)
    ELSE <<>>

parseMIDletEntries(m) == entriesFrom(m, 1)

InitParse ==
    /\ InitAdapter
    /\ manifest \in [1..MaxMidlets -> EntryValues \cup {Absent}]
    /\ midlets = <<>>
    /\ parsed = FALSE
    /\ InitTextIdle

\* parseMIDletEntries(rawManifest)
ParseMIDletEntries ==
    /\ ~parsed
    /\ midlets' = parseMIDletEntries(manifest)
    /\ parsed' = TRUE
    /\ UNCHANGED <<manifest, srcLines, content, rawManifest, screen, jarManifest>>
    /\ UNCHANGED adapterVars

NextParse == ParseMIDletEntries

SpecParse == InitParse /\ [][NextParse]_vars

----------------------------------------------------------------------------
\* parseManifest

\* the lines manifest texts are written with
ManifestLines ==
    { <<>>,
      <<"K", ":", "a">>,
      <<"K", " ", ":", " ", "a", " ">>,
      <<"J", ":", "b", ":", "c">>,
      <<" ", "b">>,
      <<" ", " ", "c">>,
      <<"x">>,
      <<":", "a">> }

\* line endings
LF == <<"\n">>
CRLF == <<"\r", "\n">>

\* a text: its lines, joined by one kind of line ending
RECURSIVE join(_, _)
join(ls, eol) ==
    IF Len(ls) = 0 THEN <<>>
    ELSE IF Len(ls) = 1 THEN ls[1]
    ELSE ls[1] \o eol \o join(Tail(ls), eol)

\* content.split(/\r?\n/)
RECURSIVE splitLines(_)
splitLines(text) ==
    IF \A k \in 1..Len(text) : text[k] # "\n"
    THEN <<text>>
    ELSE LET p == CHOOSE k \in 1..Len(text) : text[k] = "\n" /\ \A j \in 1..(k - 1) : text[j] # "\n"
             e == IF p > 1 /\ text[p - 1] = "\r" THEN p - 2 ELSE p - 1
         IN  <<SubSeq(text, 1, e)>> \o splitLines(SubSeq(text, p + 1, Len(text)))

\* line.startsWith(" ")
startsWithSpace(line) == Len(line) > 0 /\ line[1] = " "

\* line.includes(":")
includesColon(line) == \E k \in 1..Len(line) : line[k] = ":"

\* line.indexOf(":")
indexOfColon(line) ==
    CHOOSE k \in 1..Len(line) : line[k] = ":" /\ \A j \in 1..(k - 1) : line[j] # ":"

\* manifest[key] = value
put(m, key, value) == (key :> value) @@ m

\* "Save previous entry" / "Save last entry"
saveEntry(st) ==
    IF st.currentKey # <<>>
    THEN put(st.manifest, st.currentKey, trim(st.currentValue))
    ELSE st.manifest

\* one iteration of the loop over the lines, with the continuation line appended whole
manifestLine_KeepSpace(st, line) ==
    IF startsWithSpace(line)
    THEN [st EXCEPT !.currentValue = @ \o line]
    ELSE IF includesColon(line)
    THEN [manifest |-> saveEntry(st),
          currentKey |-> trim(SubSeq(line, 1, indexOfColon(line) - 1)),
          currentValue |-> SubSeq(line, indexOfColon(line) + 1, Len(line))]
    ELSE st

\* one iteration of the loop over the lines
manifestLine(st, line) ==
    IF startsWithSpace(line)
    THEN [st EXCEPT !.currentValue = @ \o Tail(line)]
    ELSE IF includesColon(line)
    THEN [manifest |-> saveEntry(st),
          currentKey |-> trim(SubSeq(line, 1, indexOfColon(line) - 1)),
          currentValue |-> SubSeq(line, indexOfColon(line) + 1, Len(line))]
    ELSE st

\* the loop over the lines
RECURSIVE manifestLoop(_, _)
manifestLoop(st, lines) ==
    IF lines = <<>> THEN st ELSE manifestLoop(manifestLine(st, Head(lines)), Tail(lines))

parseManifest(text) ==
    saveEntry(manifestLoop([manifest |-> <<>>, currentKey |-> <<>>, currentValue |-> <<>>],
                           splitLines(text)))

InitManifest ==
    /\ InitAdapter
    /\ manifest = <<>>
    /\ midlets = <<>>
    /\ parsed = FALSE
    /\ \E n \in 1..MaxLines : \E ls \in [1..n -> ManifestLines] : \E eol \in {LF, CRLF} :
          /\ srcLines = ls
          /\ content = join(ls, eol)
    /\ rawManifest = <<>>
    /\ screen = [width |-> Num(0), height |-> Num(0)]
    /\ jarManifest = NoManifest

\* parseManifest(content)
ParseManifest ==
    /\ ~parsed
    /\ rawManifest' = parseManifest(content)
    /\ parsed' = TRUE
    /\ UNCHANGED <<manifest, midlets, srcLines, content, screen, jarManifest>>
    /\ UNCHANGED adapterVars

NextManifest == ParseManifest

SpecManifest == InitManifest /\ [][NextManifest]_vars

----------------------------------------------------------------------------
\* parseScreenSize

\* the keys parseScreenSize reads
WidthKey == <<"MIDlet-Screen-Width">>
HeightKey == <<"MIDlet-Screen-Height">>
CanvasKey == <<"Nokia-MIDlet-Canvas-Size">>

\* const defaultWidth = 240, defaultHeight = 320
defaultWidth == 240
defaultHeight == 320

\* values of MIDlet-Screen-Width and MIDlet-Screen-Height in a parsed manifest
DimensionValues ==
    { Absent, <<>>, <<"1", "7", "6">>, <<"2", "2", "0">>, <<"a">>, <<"9", "p", "x">> }

\* values of Nokia-MIDlet-Canvas-Size in a parsed manifest
CanvasValues ==
    { Absent, <<>>,
      <<"1", "2", "8", "x", "1", "2", "8">>,
      <<"1", "2", "8">>,
      <<"x", "6", "4">>,
      <<"9", "6", "X", "6", "5">> }

Digits == {"0", "1", "2", "3", "4", "5", "6", "7", "8", "9"}

digitValue(c) ==
    CASE c = "0" -> 0 [] c = "1" -> 1 [] c = "2" -> 2 [] c = "3" -> 3 [] c = "4" -> 4
      [] c = "5" -> 5 [] c = "6" -> 6 [] c = "7" -> 7 [] c = "8" -> 8 [] c = "9" -> 9

\* the value of the longest prefix of digits of str, on top of acc; -1 when there is none
RECURSIVE digitsValue(_, _, _)
digitsValue(str, acc, any) ==
    IF str # <<>> /\ Head(str) \in Digits
    THEN digitsValue(Tail(str), 10 * acc + digitValue(Head(str)), TRUE)
    ELSE IF any THEN acc ELSE -1

\* parseInt(str, 10): leading whitespace, an optional sign, then the digits
parseInt(str) ==
    LET s1 == IF str # <<>> /\ Head(str) = " " THEN trim(str) ELSE str
        neg == s1 # <<>> /\ Head(s1) = "-"
        s2 == IF s1 # <<>> /\ Head(s1) \in {"-", "+"} THEN Tail(s1) ELSE s1
        v == digitsValue(s2, 0, FALSE)
    IN  IF v < 0 THEN NaN ELSE Num(IF neg THEN 0 - v ELSE v)

\* String.prototype.split("x")
RECURSIVE splitX(_)
splitX(str) ==
    IF \A k \in 1..Len(str) : str[k] # "x"
    THEN <<str>>
    ELSE LET c == CHOOSE k \in 1..Len(str) : str[k] = "x" /\ \A j \in 1..(k - 1) : str[j] # "x"
         IN  <<SubSeq(str, 1, c - 1)>> \o splitX(SubSeq(str, c + 1, Len(str)))

\* manifest[key]
get(m, key) == IF key \in DOMAIN m THEN m[key] ELSE Absent

\* manifest["Nokia-MIDlet-Canvas-Size"]?.split("x")[k]
canvasPart(m, k) ==
    IF get(m, CanvasKey) = Absent THEN Absent
    ELSE IF k <= Len(splitX(get(m, CanvasKey))) THEN splitX(get(m, CanvasKey))[k]
    ELSE Absent

\* a || b
orElse(a, b) == IF truthy(a) THEN a ELSE b

parseScreenSize(m) ==
    LET widthStr == orElse(get(m, WidthKey), canvasPart(m, 1))
        heightStr == orElse(get(m, HeightKey), canvasPart(m, 2))
    IN  [width |-> IF truthy(widthStr) THEN parseInt(widthStr) ELSE Num(defaultWidth),
         height |-> IF truthy(heightStr) THEN parseInt(heightStr) ELSE Num(defaultHeight)]

\* the mapping that has the given values under the three keys, Absent meaning no key
screenManifest(w, h, c) ==
    [k \in {key \in {WidthKey, HeightKey, CanvasKey} :
               (key = WidthKey /\ w # Absent) \/ (key = HeightKey /\ h # Absent)
               \/ (key = CanvasKey /\ c # Absent)}
       |-> IF k = WidthKey THEN w ELSE IF k = HeightKey THEN h ELSE c]

InitScreen ==
    /\ InitAdapter
    /\ manifest = <<>>
    /\ midlets = <<>>
    /\ parsed = FALSE
    /\ srcLines = <<>>
    /\ content = <<>>
    /\ \E w \in DimensionValues, h \in DimensionValues, c \in CanvasValues :
          rawManifest = screenManifest(w, h, c)
    /\ screen = [width |-> Num(0), height |-> Num(0)]
    /\ jarManifest = NoManifest

\* parseScreenSize(rawManifest)
ParseScreenSize ==
    /\ ~parsed
    /\ screen' = parseScreenSize(rawManifest)
    /\ parsed' = TRUE
    /\ UNCHANGED <<manifest, midlets, srcLines, content, rawManifest, jarManifest>>
    /\ UNCHANGED adapterVars

NextScreen == ParseScreenSize

SpecScreen == InitScreen /\ [][NextScreen]_vars

----------------------------------------------------------------------------
\* parseJAR and parseJAD

\* the lines descriptors are written with
DescriptorLines ==
    { <<>>,
      <<"MIDlet-", "1", ":", " ", "G", ",", " ", "i", ",", " ", "M">>,
      <<"MIDlet-", "1", ":", " ", "G", ",", " ", "i">>,
      <<"MIDlet-", "1", ":">>,
      <<"MIDlet-", "2", ":", "H", ",", ",", "N">>,
      <<" ", ",", "C">>,
      <<"MIDlet-Name", ":", " ", "n">> }

\* the names of the files JarLoader hands to parseJAR: they end with .jar in any case
FileNames == { <<"game", ".jar">>, <<"GAME", ".JAR">> }

\* file.name.replace(".jar", "")
RECURSIVE replaceJar(_)
replaceJar(name) ==
    IF name = <<>> THEN name
    ELSE IF Head(name) = ".jar" THEN Tail(name)
    ELSE <<Head(name)>> \o replaceJar(Tail(name))

\* the key `MIDlet-${i}`
MidletKey(i) == <<"MIDlet-", ToString(i)>>

\* the MIDlet-<i> part of a parsed manifest
midletEntries(raw) == [i \in 1..MaxMidlets |-> get(raw, MidletKey(i))]

\* midlets[0]?.className without the fallback
classNameOf_NoFallback(ms) == IF Len(ms) >= 1 THEN ms[1].className ELSE <<"Start">>

\* midlets[0]?.className || "Start"
classNameOf(ms) ==
    IF Len(ms) >= 1 /\ ms[1].className # <<>> THEN ms[1].className ELSE <<"Start">>

\* the JARManifest built from a parsed manifest; fallbackName is the default midletName
buildManifest(raw, fallbackName) ==
    [error |-> NULL,
     midletName |-> orElse(get(raw, <<"MIDlet-Name">>), fallbackName),
     midletVersion |-> orElse(get(raw, <<"MIDlet-Version">>), <<"1.0">>),
     midletVendor |-> orElse(get(raw, <<"MIDlet-Vendor">>), <<"Unknown">>),
     className |-> classNameOf(parseMIDletEntries(midletEntries(raw)))]

InitJAD ==
    /\ InitAdapter
    /\ manifest = <<>>
    /\ midlets = <<>>
    /\ parsed = FALSE
    /\ \E n \in 1..MaxLines : \E ls \in [1..n -> DescriptorLines] : \E eol \in {LF, CRLF} :
          /\ srcLines = ls
          /\ content = join(ls, eol)
    /\ rawManifest = <<>>
    /\ screen = [width |-> Num(0), height |-> Num(0)]
    /\ jarManifest = NoManifest

\* the results parseJAR and parseJAD share
ParsedWith(fallbackName) ==
    LET raw == parseManifest(content)
    IN  /\ rawManifest' = raw
        /\ manifest' = midletEntries(raw)
        /\ midlets' = parseMIDletEntries(midletEntries(raw))
        /\ screen' = parseScreenSize(raw)
        /\ jarManifest' = buildManifest(raw, fallbackName)

\* parseJAR(file): content is the text of META-INF/MANIFEST.MF when the archive has it
ParseJAR ==
    /\ ~parsed
    /\ \E file \in FileNames, found \in BOOLEAN :
          IF found
          THEN ParsedWith(replaceJar(file))
          ELSE /\ jarManifest' = [NoManifest EXCEPT !.error = "Invalid JAR: MANIFEST.MF not found"]
               /\ UNCHANGED <<rawManifest, manifest, midlets, screen>>
    /\ parsed' = TRUE
    /\ UNCHANGED <<srcLines, content>>
    /\ UNCHANGED adapterVars

\* parseJAD(content)
ParseJAD ==
    /\ ~parsed
    /\ ParsedWith(<<"Unknown">>)
    /\ parsed' = TRUE
    /\ UNCHANGED <<srcLines, content>>
    /\ UNCHANGED adapterVars

NextJAD == ParseJAR \/ ParseJAD

SpecJAD == InitJAD /\ [][NextJAD]_vars

----------------------------------------------------------------------------
\* Properties of the adapter

\* script tags injected whose load has not failed, cheerpjInit calls that have not failed
ScriptsInjected == {t \in Tasks : tasks[t].script \in {"pending", "loaded"}}
InitsInvoked == {t \in Tasks : tasks[t].init \in {"pending", "ok"}}

\* C1: over all calls of initialize on one adapter (direct, or made by loadJAR), the
\* external script is injected once and cheerpjInit is invoked once in total; a later
\* call does neither.
C1_InitializeOnce ==
    /\ Cardinality(ScriptsInjected) <= 1
    /\ Cardinality(InitsInvoked) <= 1

\* C2: at most one blob URL created by createObjectURL is not yet revoked, and it is
\* the one jarUrlRef holds: a loadJAR revokes the stored URL before it creates its own.
C2_AtMostOneLiveUrl ==
    /\ Cardinality(liveUrls) <= 1
    /\ liveUrls \subseteq {jarUrlRef}

\* a second loadJAR has created its URL after a first one had created and stored one
C2_Witness ==
    \E t, u \in Tasks :
        /\ t # u
        /\ tasks[t].url = t /\ t \notin liveUrls
        /\ tasks[u].url = u /\ u \in liveUrls
        /\ tasks[t].pc = "run" /\ tasks[u].pc = "run"
        /\ last.op \in {"loadJAR", "loadJARContinue"}

\* C3: once the Emulator has been torn down (stop called by the load effect's cleanup,
\* the hook's unmount cleanup run), no blob URL is live in any later state.
C3_NoLiveUrlAfterTeardown == ~mounted => liveUrls = {}

\* the state of the adapter that sendKeyEvent could touch
adapterState == <<status, error, isReady, displayElement, jarUrlRef, liveUrls, tasks,
                  containerRef, cheerpjInitDefined>>

\* C4: sendKeyEvent dispatches an event to the display element exactly when status is
\* 'running' and the display element exists, and it never changes adapter state.
C4_SendKeyEventGuard ==
    [][last'.op = "sendKeyEvent" =>
          /\ UNCHANGED adapterState
          /\ (last'.event # "none") <=> (status = "running" /\ displayElement # 0)]_vars

\* sendKeyEvent returned early although a display element exists, status not 'running'
C4_Witness ==
    /\ last.op = "sendKeyEvent" /\ last.event = "none"
    /\ displayElement # 0 /\ status = "error"

\* C5: stop revokes and clears the stored URL, sets status 'idle', clears the display
\* element and changes nothing else: isReady, error and the record of engine calls stay.
C5_StopFrame ==
    [][last'.op = "stop" =>
          /\ jarUrlRef' = 0
          /\ liveUrls' = liveUrls \ {jarUrlRef}
          /\ status' = "idle"
          /\ displayElement' = 0
          /\ UNCHANGED <<isReady, error, tasks, containerRef, cheerpjInitDefined>>]_vars

\* stop was called on an initialized adapter that holds an error message and has run a JAR
C5_Witness ==
    /\ last.op = "stop"
    /\ isReady /\ error # NULL
    /\ \E t \in Tasks : tasks[t].url # 0 /\ tasks[t].ran

\* what a loadJAR call has done to the engine or to the URL store
touched(t) == tasks[t].url # 0 \/ tasks[t].display \/ tasks[t].ran

\* C6: loadJAR creates a URL, creates a display or calls cheerpjRunMain only after a
\* cheerpjInit call has resolved; called uninitialized it runs initialize itself first,
\* and when that fails it throws having done none of the three.
C6_RunOnlyInitialized ==
    \A t \in Tasks : tasks[t].kind = "loadJAR" =>
        /\ touched(t) => \E u \in Tasks : tasks[u].init = "ok"
        /\ (touched(t) /\ ~tasks[t].ready) => tasks[t].init = "ok"
        /\ (tasks[t].init = "failed" \/ tasks[t].script = "failed") =>
              (tasks[t].result = "thrown" /\ ~touched(t))

\* a loadJAR called uninitialized has thrown because its cheerpjInit was rejected
C6_Witness ==
    \E t \in Tasks :
        /\ tasks[t].kind = "loadJAR" /\ ~tasks[t].ready
        /\ tasks[t].init = "failed" /\ tasks[t].result = "thrown"

\* C7: the step in which a call of initialize or loadJAR fails (initialize returns false,
\* loadJAR throws) ends with status 'error' and a non-null error message.
C7_FailureSurfaces ==
    [][\A t \in Tasks :
          (tasks[t].result = "none" /\ tasks'[t].result \in {"false", "thrown"}) =>
             (status' = "error" /\ error' # NULL)]_vars

\* a loadJAR has thrown after creating its URL: display creation or cheerpjRunMain failed
C7_Witness ==
    \E t \in Tasks :
        /\ tasks[t].kind = "loadJAR" /\ tasks[t].result = "thrown" /\ tasks[t].url # 0
        /\ last.op \in {"loadJAR", "loadJARContinue", "runMainReject"}
        /\ status = "error" /\ error \in {"err.message", "Failed to load JAR"}

\* the changes of status made by setStatus calls seq, starting from status from
Changes(from, seq) ==
    LET chain == <<from>> \o seq
    IN  {<<chain[i], chain[i + 1]>> : i \in {j \in 1..Len(seq) : chain[j] # chain[j + 1]}}

\* the documented state machine
Documented ==
    {<<"idle", "loading">>, <<"loading", "initializing">>, <<"initializing", "idle">>,
     <<"loading", "running">>}
    \cup {<<a, "error">> : a \in {"loading", "initializing", "running"}}
    \cup {<<a, "idle">> : a \in Statuses}

\* C8 as stated: every change of status is a transition of the documented state machine.
C8_DocumentedTransitions ==
    [][Changes(status, last'.sets) \subseteq Documented]_vars

\* the operations that may set each status
Setters(st) ==
    CASE st = "loading" -> {"initialize", "loadJAR", "loadJARContinue", "loadEffect"}
      [] st = "initializing" -> {"scriptOnload", "scriptPresent"}
      [] st = "idle" -> {"cheerpjInitResolve", "stop", "loadEffect", "unmount"}
      [] st = "running" -> {"loadJAR", "loadJARContinue", "loadEffect"}
      [] st = "error" -> {"scriptOnerror", "cheerpjInitReject", "runMainReject",
                          "loadJAR", "loadJARContinue", "loadEffect"}
      [] OTHER -> {}

\* C8 amended: a change of status is to 'loading' at the start of an initialization or
\* of a run request, to 'initializing' when the script of an initialization is loaded,
\* to 'idle' on a successful cheerpjInit or on stop, to 'running' from 'loading' only,
\* by loadJAR, or to 'error' on a failure; 'paused' is never reached.
C8_StatusChanges ==
    [][/\ status' # "paused"
       /\ \A p \in Changes(status, last'.sets) :
             /\ last'.op \in Setters(p[2])
             /\ p[2] = "running" => p[1] = "loading"]_vars

\* a loadJAR called uninitialized went the whole way: loading, initializing, idle,
\* loading, running
C8_Witness ==
    /\ last.op = "loadJARContinue" /\ last.sets = <<"loading", "running">>
    /\ status = "running"

\* C9: status 'running' implies that the display element is non-null.
C9_RunningHasDisplay == status = "running" => displayElement # 0

----------------------------------------------------------------------------
\* Properties of the parser

\* the largest n such that the keys MIDlet-1 .. MIDlet-n are all present
PresentPrefix(m) ==
    CHOOSE n \in 0..Len(m) :
        /\ \A k \in 1..n : m[k] # Absent
        /\ n < Len(m) => m[n + 1] = Absent

\* C10: parseMIDletEntries returns the entries MIDlet-1 .. MIDlet-n in index order,
\* n the largest number such that the keys MIDlet-1 .. MIDlet-n are all present.
C10_ContiguousPresentKeys ==
    parsed =>
        /\ Len(midlets) = PresentPrefix(manifest)
        /\ \A k \in 1..Len(midlets) : midlets[k] = MIDletInfo(manifest[k], k)

\* a key line: it does not start with a space and contains a colon
keyLine(ls, i) == ~startsWithSpace(ls[i]) /\ includesColon(ls[i])

\* the key of a key line: the text before its first colon, trimmed
keyOf(line) == trim(SubSeq(line, 1, indexOfColon(line) - 1))

\* the text after the first colon of a key line
afterColon(line) == SubSeq(line, indexOfColon(line) + 1, Len(line))

\* the concatenation of the lines ls[j], j in js, each without its first character
RECURSIVE concatTails(_, _, _)
concatTails(ls, j, js) ==
    IF j > Len(ls) THEN <<>>
    ELSE (IF j \in js THEN Tail(ls[j]) ELSE <<>>) \o concatTails(ls, j + 1, js)

\* the continuation lines that directly follow line i
directContinuations(ls, i) ==
    {j \in (i + 1)..Len(ls) : \A k \in (i + 1)..j : startsWithSpace(ls[k])}

\* the continuation lines between line i and the next key line
continuationsUntilNextKey(ls, i) ==
    {j \in (i + 1)..Len(ls) : startsWithSpace(ls[j]) /\ \A k \in (i + 1)..j : ~keyLine(ls, k)}

\* the key lines that decide the mapping: non-empty key, the last line with that key
decidingLines(ls) ==
    {i \in 1..Len(ls) : /\ keyLine(ls, i)
                        /\ keyOf(ls[i]) # <<>>
                        /\ \A j \in (i + 1)..Len(ls) : keyLine(ls, j) => keyOf(ls[j]) # keyOf(ls[i])}

\* C11 as stated: each key maps to the trimmed text after its first colon followed by
\* the directly following continuation lines, each without its one leading space.
C11_DirectContinuations ==
    parsed =>
        /\ DOMAIN rawManifest = {keyOf(srcLines[i]) : i \in decidingLines(srcLines)}
        /\ \A i \in decidingLines(srcLines) :
              rawManifest[keyOf(srcLines[i])] =
                 trim(afterColon(srcLines[i])
                      \o concatTails(srcLines, 1, directContinuations(srcLines, i)))

\* C11 amended: each non-empty key maps, for the last line that sets it, to the trimmed
\* text after the first colon followed by the continuation lines up to the next key
\* line, each without its one leading space; lines in between that have neither a
\* leading space nor a colon are skipped and do not end the value; LF and CRLF alike.
C11_ContinuationsUntilNextKey ==
    parsed =>
        /\ DOMAIN rawManifest = {keyOf(srcLines[i]) : i \in decidingLines(srcLines)}
        /\ \A i \in decidingLines(srcLines) :
              rawManifest[keyOf(srcLines[i])] =
                 trim(afterColon(srcLines[i])
                      \o concatTails(srcLines, 1, continuationsUntilNextKey(srcLines, i)))

\* a CRLF text was parsed whose key line is followed by a skipped line and then by a
\* continuation line with two leading spaces, of which one is kept
C11_Witness ==
    /\ parsed
    /\ content = join(<<<<"K", ":", "a">>, <<"x">>, <<" ", " ", "c">>>>, CRLF)
    /\ rawManifest = (<<"K">> :> <<"a", " ", "c">>)

\* a decimal numeral: a non-empty string of digits
numeral(str) == str # Absent /\ str # <<>> /\ \A k \in 1..Len(str) : str[k] \in Digits

\* the number a decimal numeral denotes
RECURSIVE numeralValue(_)
numeralValue(str) ==
    IF str = <<>> THEN 0
    ELSE 10 * numeralValue(SubSeq(str, 1, Len(str) - 1)) + digitValue(str[Len(str)])

\* the parts W and H of a canvas size "WxH"
canvasWxH(c) == c # Absent /\ Len(splitX(c)) = 2 /\ numeral(splitX(c)[1]) /\ numeral(splitX(c)[2])

\* C12: parseScreenSize returns the values of MIDlet-Screen-Width and -Height when they
\* are present, W x H of Nokia-MIDlet-Canvas-Size 'WxH' when they are absent, 240x320
\* when none of the three is present; width and height are always integers.
C12_ScreenSize ==
    parsed =>
        LET w == get(rawManifest, WidthKey)
            h == get(rawManifest, HeightKey)
            c == get(rawManifest, CanvasKey)
        IN  /\ (numeral(w) /\ numeral(h)) =>
                  screen = [width |-> Num(numeralValue(w)), height |-> Num(numeralValue(h))]
            /\ (w = Absent /\ h = Absent /\ canvasWxH(c)) =>
                  screen = [width |-> Num(numeralValue(splitX(c)[1])),
                            height |-> Num(numeralValue(splitX(c)[2]))]
            /\ (w = Absent /\ h = Absent /\ c = Absent) =>
                  screen = [width |-> Num(240), height |-> Num(320)]
            /\ ~screen.width.nan /\ ~screen.height.nan

\* C13 as stated: className is the class name of the first MIDlet entry whenever there
\* is one, and 'Start' exactly when there is none.
C13_ClassNameOfFirstEntry ==
    (parsed /\ jarManifest.error = NULL) =>
        /\ Len(midlets) >= 1 => jarManifest.className = midlets[1].className
        /\ (jarManifest.className = <<"Start">>) <=> (Len(midlets) = 0)

\* C13 amended: className is the class name of the first MIDlet entry whenever there is
\* one and it names a class, and 'Start' otherwise, that is when there is no entry or
\* the first entry has no class part; an accepted manifest always yields a className.
C13_ClassNameOrStart ==
    (parsed /\ jarManifest.error = NULL) =>
        /\ (Len(midlets) >= 1 /\ midlets[1].className # <<>>) =>
              jarManifest.className = midlets[1].className
        /\ (Len(midlets) = 0 \/ midlets[1].className = <<>>) =>
              jarManifest.className = <<"Start">>
        /\ jarManifest.className # <<>>

\* a descriptor whose first MIDlet entry has a name and an icon but no class was parsed
C13_Witness ==
    /\ parsed /\ jarManifest.error = NULL
    /\ Len(midlets) >= 1 /\ midlets[1].className = <<>>
    /\ jarManifest.className = <<"Start">>

\* the calls that invoked cheerpjRunMain, and those that created a display
RunsStarted == {t \in Tasks : tasks[t].ran}
DisplaysCreated == {t \in Tasks : tasks[t].display}

\* C14: while the Emulator stays mounted with the same JAR file and manifest,
\* cheerpjRunMain is invoked at most once and at most one display is created.
C14_StartedAtMostOnce ==
    mounted => Cardinality(RunsStarted) <= 1 /\ Cardinality(DisplaysCreated) <= 1

\* C15: in every reachable state, under any interleaving of initialize, loadJAR and
\* stop, status 'error' comes with a non-null error message.
C15_ErrorHasMessage == status = "error" => error # NULL

\* two interleaved calls, the later one made before the engine was ready, have both
\* failed and the adapter shows the error
C15_Witness ==
    /\ status = "error" /\ error # NULL
    /\ \E t, u \in Tasks :
          /\ t < u
          /\ tasks[t].result \in {"false", "thrown"}
          /\ ~tasks[u].ready /\ tasks[u].script # "none"
          /\ tasks[u].result \in {"false", "thrown"}

====
